---- MODULE Spec2Model ----
(***************************************************************************)
(* A model of the data-to-query engine of sql-spw-bot:                     *)
(*   - SimpleSQLite (modules/sql_engine.py): the type inferencer, the      *)
(*     table loader and the lock-guarded query engine, with several        *)
(*     threads calling one engine;                                         *)
(*   - offline_sql (modules/ai_agent.py): the rule-based translator.       *)
(* Strings are TLA+ strings (sequences of characters): Len, \o and SubSeq  *)
(* are the only string primitives used.                                    *)
(***************************************************************************)
EXTENDS Integers, Sequences, FiniteSets, TLC

VARIABLES
    table,      \* the table held by the engine's single connection
    lock,       \* self.lock: the thread holding it, or Free
    pc,         \* per thread: where it is in the operation it runs
    rows,       \* per thread: the records passed to load_rows
    idx,        \* per thread: position of load_rows' insert loop
    sql,        \* per thread: the statement passed to execute_safe_select
    cur,        \* per thread: the cursor conn.execute returned
    info,       \* per thread: schema_text's `cols` (from PRAGMA table_info)
    res,        \* per thread: how its last operation ended
    prior,      \* history: the table a load found when it took the lock
    gens,       \* history: the complete tables of the loads started so far
    loadFailed, \* history: some load_rows raised while it held the lock
    calls,      \* number of operations started (bounded by MaxCalls)
    sample,     \* type inferencer: the sample value
    inferred,   \* type inferencer: the type returned for it
    question,   \* offline translator: the question
    answer      \* offline translator: the statement returned (or NotRun)

engineVars == <<table, lock, pc, rows, idx, sql, cur, info, res, prior, gens, loadFailed, calls>>
inferVars == <<sample, inferred>>
offlineVars == <<question, answer>>
vars == <<table, lock, pc, rows, idx, sql, cur, info, res, prior, gens, loadFailed, calls,
          sample, inferred, question, answer>>

----------------------------------------------------------------------------
(* Strings, as Python's str methods and the re module treat them.          *)

\* s[a-1:b] with Python's clamping of the bounds (positions count from 1)
Slice(s, a, b) ==
    LET lo == IF a < 1 THEN 1 ELSE a
        hi == IF b > Len(s) THEN Len(s) ELSE b
    IN  IF lo > hi THEN "" ELSE SubSeq(s, lo, hi)

\* the character at position i, "" past either end
Ch(s, i) == Slice(s, i, i)

Whitespace == " \t\n"
Digits == "0123456789"
UpperCase == "ABCDEFGHIJKLMNOPQRSTUVWXYZ"
LowerCase == "abcdefghijklmnopqrstuvwxyz"

InClass(c, cls) == \E i \in 1..Len(cls) : Ch(cls, i) = c

\* str.lower() on one character
LowerChar(c) ==
    IF InClass(c, UpperCase)
    THEN Ch(LowerCase, CHOOSE i \in 1..Len(UpperCase) : Ch(UpperCase, i) = c)
    ELSE c

\* str.lower(), character by character (the string is halved to keep the
\* recursion shallow)
RECURSIVE Lower(_)
Lower(s) ==
    IF Len(s) <= 1 THEN LowerChar(s)
    ELSE Lower(Slice(s, 1, Len(s) \div 2)) \o Lower(Slice(s, (Len(s) \div 2) + 1, Len(s)))

\* str.strip(chars): drop the leading and trailing characters that are in chars
StripChars(s, chars) ==
    LET keep == {i \in 1..Len(s) : ~InClass(Ch(s, i), chars)}
    IN  IF keep = {} THEN ""
        ELSE Slice(s, CHOOSE i \in keep : \A j \in keep : i <= j,
                       CHOOSE i \in keep : \A j \in keep : i >= j)

Strip(s) == StripChars(s, Whitespace)

StartsWith(s, p) == Len(s) >= Len(p) /\ Slice(s, 1, Len(p)) = p

\* Python's `p in s`
Contains(s, p) == \E i \in 1..(Len(s) - Len(p) + 1) : Slice(s, i, i + Len(p) - 1) = p

----------------------------------------------------------------------------
(* Regular expressions, as sets of positions: a position is the index of   *)
(* the next character to read; each combinator maps the positions before a *)
(* piece of the pattern to the positions after it.                         *)

\* one character of the class
ReOne(P, s, cls) == {p + 1 : p \in {q \in P : q <= Len(s) /\ InClass(Ch(s, q), cls)}}

\* x?
ReOpt(P, s, cls) == P \cup ReOne(P, s, cls)

\* x+
RePlus(P, s, cls) ==
    {q \in 2..(Len(s) + 1) :
        \E p \in P : p < q /\ \A k \in p..(q - 1) : InClass(Ch(s, k), cls)}

\* x*
ReStar(P, s, cls) == P \cup RePlus(P, s, cls)

\* a literal
ReLit(P, s, lit) == {p + Len(lit) : p \in {q \in P : Slice(s, q, q + Len(lit) - 1) = lit}}

\* re.fullmatch: the pattern ends exactly at the end of the string
FullMatch(P, s) == (Len(s) + 1) \in P

\* [+-]?\d+
ReInteger(s) == RePlus(ReOpt({1}, s, "+-"), s, Digits)

ReRealDigitsBothSides(s) ==
    LET sign == ReOpt({1}, s, "+-")
        mant == RePlus(ReLit(RePlus(sign, s, Digits), s, "."), s, Digits)
        expo == RePlus(ReOpt(ReOne(mant, s, "eE"), s, "+-"), s, Digits)
    IN  mant \cup expo

\* [+-]?(\d*\.\d+|\d+\.\d*)([eE][+-]?\d+)?
ReReal(s) ==
    LET sign == ReOpt({1}, s, "+-")
        mant == RePlus(ReLit(ReStar(sign, s, Digits), s, "."), s, Digits)
                \cup ReStar(ReLit(RePlus(sign, s, Digits), s, "."), s, Digits)
        expo == RePlus(ReOpt(ReOne(mant, s, "eE"), s, "+-"), s, Digits)
    IN  mant \cup expo

\* \d{4}-\d{2}-\d{2}
ReIsoDate(s) ==
    LET d(P) == ReOne(P, s, Digits)
    IN  d(d(ReLit(d(d(ReLit(d(d(d(d({1})))), s, "-"))), s, "-")))

----------------------------------------------------------------------------
(* Values of a record: a string, None, or a Python int (a spreadsheet      *)
(* cell), all as [k, s] with s the text str() gives.                       *)

Str(s) == [k |-> "str", s |-> s]
None == [k |-> "none", s |-> "None"]
PyInt(digits) == [k |-> "int", s |-> digits]

\* SimpleSQLite._infer_type
InferType(v) ==
    IF v = None THEN "TEXT"
    ELSE LET s == v.s
         IN  IF FullMatch(ReInteger(s), s) THEN "INTEGER"
             ELSE IF FullMatch(ReReal(s), s) THEN "REAL"
             ELSE IF FullMatch(ReIsoDate(s), s) THEN "TEXT"
             ELSE "TEXT"

----------------------------------------------------------------------------
(* offline_sql: the rule-based translator.  Each rule gives Ret(statement),*)
(* Exc(error) or NoHit (the next rule is tried).                           *)

NotRun == [kind |-> "unset", sql |-> ""]
NoHit == [kind |-> "next", sql |-> ""]
Ret(s) == [kind |-> "return", sql |-> s]
Exc(e) == [kind |-> e, sql |-> ""]

WordChars == UpperCase \o LowerCase \o Digits \o "_"
ValueCharsWithQuote == UpperCase \o LowerCase \o Digits \o "_ -\""

\* [A-Za-z0-9_ -]
ValueChars == UpperCase \o LowerCase \o Digits \o "_ -"

Min(S) == CHOOSE x \in S : \A y \in S : x <= y
Max(S) == CHOOSE x \in S : \A y \in S : x >= y

\* where a greedy run of cls that starts at p stops: the first position from p
\* on whose character is not in cls (Len + 1 when there is none)
RunEnd(s, p, cls) ==
    LET stops == {j \in p..Len(s) : ~InClass(Ch(s, j), cls)}
    IN  IF stops = {} THEN Len(s) + 1 ELSE Min(stops)

NoMatch == [found |-> FALSE, text |-> ""]
Match(text) == [found |-> TRUE, text |-> text]

\* \s*([A-Za-z0-9_ -]+) from position p: \s* takes the whole run of whitespace
\* and gives characters back until the group can start (a space is in both
\* classes); the group then runs as far as it can
SpacesThenValue(s, p) ==
    LET e == RunEnd(s, p, Whitespace)
        starts == {j \in p..e : InClass(Ch(s, j), ValueChars)}
    IN  IF starts = {} THEN NoMatch
        ELSE Match(Slice(s, Max(starts), RunEnd(s, Max(starts), ValueChars) - 1))

\* (?:=|is|named) at position p, the alternatives tried in order: the positions
\* after it
ReKeyword(s, p, alternatives) ==
    {p + Len(alternatives[a]) :
        a \in {b \in 1..Len(alternatives) :
                  Slice(s, p, p + Len(alternatives[b]) - 1) = alternatives[b]}}

\* re.search: the match at the leftmost position that has one
Leftmost(found) == IF DOMAIN found = {} THEN NoMatch ELSE found[Min(DOMAIN found)]

\* the matches of <head><gap>(?:alternatives)\s*([A-Za-z0-9_ -]+), by start
\* position; the gap is \s* when wordBound (with \b on both sides of head) and
\* \s+ otherwise
FilterMatches(s, head, wordBound, alternatives) ==
    LET at(i) ==
            LET p == i + Len(head)
                e == RunEnd(s, p, Whitespace)
                k == ReKeyword(s, e, alternatives)
            IN  IF /\ Slice(s, i, p - 1) = head
                   /\ IF wordBound
                      THEN /\ ~InClass(Ch(s, i - 1), WordChars)
                           /\ ~InClass(Ch(s, p), WordChars)
                      ELSE e > p
                   /\ k # {}
                THEN SpacesThenValue(s, Min(k))
                ELSE NoMatch
        hits == {i \in 1..Len(s) : at(i).found}
    IN  [i \in hits |-> at(i)]

\* re.search(r'\bitem\b\s*(?:=|is)\s*([A-Za-z0-9_ -]+)', q)
SearchCountItem(q) == Leftmost(FilterMatches(q, "item", TRUE, <<"=", "is">>))

\* re.search(r'customer\s+(?:=|is|named)\s*([A-Za-z0-9_ -]+)', q)
SearchCustomer(q) == Leftmost(FilterMatches(q, "customer", FALSE, <<"=", "is", "named">>))

\* re.search(r'item\s+(?:=|is|named)\s*([A-Za-z0-9_ -]+)', q)
SearchItem(q) == Leftmost(FilterMatches(q, "item", FALSE, <<"=", "is", "named">>))

\* re.search(r"top\s+(\d+)", q)
SearchTop(q) ==
    LET at(i) ==
            LET p == i + 3
                e == RunEnd(q, p, Whitespace)
            IN  IF Slice(q, i, p - 1) = "top" /\ e > p /\ InClass(Ch(q, e), Digits)
                THEN Match(Slice(q, e, RunEnd(q, e, Digits) - 1))
                ELSE NoMatch
        hits == {i \in 1..Len(q) : at(i).found}
    IN  IF hits = {} THEN NoMatch ELSE at(Min(hits))

\* m.group(1).strip().strip('"\'')
FilterValue(m) == StripChars(Strip(m.text), "\"'")

\* int() refuses more than this many digits (CPython's default limit on
\* converting between str and int)
IntMaxStrDigits == 4300

\* str(int(digits)): the digits without their leading zeros
IntText(digits) ==
    LET nz == {i \in 1..Len(digits) : Ch(digits, i) # "0"}
    IN  IF nz = {} THEN "0" ELSE Slice(digits, Min(nz), Len(digits))

\* Count rows
RuleCount(q, table_name) ==
    IF Contains(q, "how many") \/ Contains(q, "count")
    THEN LET m == SearchCountItem(q)
         IN  IF m.found
             THEN Ret("SELECT COUNT(*) AS count FROM " \o table_name
                      \o " WHERE item = \"" \o FilterValue(m) \o "\";")
             ELSE Ret("SELECT COUNT(*) AS count FROM " \o table_name \o ";")
    ELSE NoHit

\* Sum revenue
RuleRevenue(q, table_name) ==
    IF Contains(q, "revenue") \/ Contains(q, "total sales") \/ Contains(q, "sum")
    THEN IF Contains(q, "by item") \/ Contains(q, "per item")
         THEN Ret("SELECT item, SUM(quantity*price) AS revenue FROM " \o table_name
                  \o " GROUP BY item ORDER BY revenue DESC LIMIT 10;")
         ELSE IF Contains(q, "by date") \/ Contains(q, "per day") \/ Contains(q, "daily")
         THEN Ret("SELECT date, SUM(quantity*price) AS revenue FROM " \o table_name
                  \o " GROUP BY date ORDER BY date;")
         ELSE Ret("SELECT SUM(quantity*price) AS revenue FROM " \o table_name \o ";")
    ELSE NoHit

\* Top-k items
RuleTop(q, table_name) ==
    LET mtop == SearchTop(q)
    IN  IF mtop.found /\ (Contains(q, "item") \/ Contains(q, "product"))
        THEN IF Len(mtop.text) > IntMaxStrDigits
             THEN Exc("ValueError")
             ELSE Ret("SELECT item, SUM(quantity*price) AS revenue FROM " \o table_name
                      \o " GROUP BY item ORDER BY revenue DESC LIMIT "
                      \o IntText(mtop.text) \o ";")
        ELSE NoHit

\* Filter by customer
RuleCustomer(q, table_name) ==
    LET m == SearchCustomer(q)
    IN  IF m.found
        THEN Ret("SELECT * FROM " \o table_name \o " WHERE customer = \""
                 \o FilterValue(m) \o "\" LIMIT 50;")
        ELSE NoHit

\* Filter by item
RuleItem(q, table_name) ==
    LET m == SearchItem(q)
    IN  IF m.found
        THEN Ret("SELECT * FROM " \o table_name \o " WHERE item = \""
                 \o FilterValue(m) \o "\" LIMIT 50;")
        ELSE NoHit

\* default
RuleDefault(q, table_name) == Ret("SELECT * FROM " \o table_name \o " LIMIT 20;")

\* the first of the results that is not NoHit
FirstHit(results) == results[Min({i \in 1..Len(results) : results[i] # NoHit})]

\* offline_sql(user_query, table_name)
OfflineSql(user_query, table_name) ==
    LET q == Lower(user_query)
    IN  FirstHit(<<RuleCount(q, table_name), RuleRevenue(q, table_name),
                   RuleTop(q, table_name), RuleCustomer(q, table_name),
                   RuleItem(q, table_name), RuleDefault(q, table_name)>>)

----------------------------------------------------------------------------
(* Records and the schema load_rows infers from them.  A record is an      *)
(* ordered mapping: a sequence of <<key, value>> pairs.                    *)

Keys(r) == [i \in 1..Len(r) |-> r[i][1]]

\* dict.get(c): the value under key c, None when the key is missing
Get(r, c) ==
    IF \E i \in 1..Len(r) : r[i][1] = c
    THEN r[CHOOSE i \in 1..Len(r) : r[i][1] = c][2]
    ELSE None

\* `r.get(c) not in (None, "")`
IsBlank(v) == v = None \/ v = Str("")

\* cols = list(rows[0].keys())
ColumnsOf(rs) == Keys(rs[1])

\* next((r.get(c) for r in rows if r.get(c) not in (None, "")), None)
FirstValue(rs, c) ==
    LET I == {i \in 1..Len(rs) : ~IsBlank(Get(rs[i], c))}
    IN  IF I = {} THEN None ELSE Get(rs[CHOOSE i \in I : \A j \in I : i <= j], c)

\* types: one per column, from its first non-empty value
TypesOf(rs) ==
    LET cs == ColumnsOf(rs)
    IN  [j \in 1..Len(cs) |->
            LET v == FirstValue(rs, cs[j])
            IN  IF v # None THEN InferType(v) ELSE "TEXT"]

\* values = [r.get(c, None) for c in cols]
ValuesOf(r, cs) == [j \in 1..Len(cs) |-> Get(r, cs[j])]

----------------------------------------------------------------------------
(* The storage: one connection to an in-memory SQLite database, holding at *)
(* most the table self.table_name.  Every thread uses this connection, so  *)
(* each statement's effect is seen by the next one, committed or not.      *)

TableName == "sales"

NoTable == [exists |-> FALSE, cols |-> <<>>, types |-> <<>>, rows |-> <<>>]

\* DROP TABLE IF EXISTS "<table>"
DropTable(tbl) == NoTable

\* CREATE TABLE "<table>" (<col_defs>) is rejected with no columns, or when a
\* column name closes its own quotes
CreateRejected(cs) == cs = <<>> \/ \E j \in 1..Len(cs) : Contains(cs[j], "\"")

CreateTable(cs, ts) == [exists |-> TRUE, cols |-> cs, types |-> ts, rows |-> <<>>]

\* sqlite3 binds None, str and ints of at most 64 bits; a larger int raises
\* OverflowError
MaxInt64 == "9223372036854775807"

DigitOf(c) == CHOOSE i \in 1..Len(Digits) : Ch(Digits, i) = c

RECURSIVE DigitsLeq(_, _)
DigitsLeq(a, b) ==
    IF a = "" THEN TRUE
    ELSE IF Ch(a, 1) = Ch(b, 1) THEN DigitsLeq(Slice(a, 2, Len(a)), Slice(b, 2, Len(b)))
    ELSE DigitOf(Ch(a, 1)) < DigitOf(Ch(b, 1))

Bindable(v) ==
    v.k # "int" \/ Len(v.s) < Len(MaxInt64)
                \/ (Len(v.s) = Len(MaxInt64) /\ DigitsLeq(v.s, MaxInt64))

InsertRowOverwriting(tbl, vals) == [tbl EXCEPT !.rows = <<vals>>]

\* INSERT INTO "<table>" (...) VALUES (?, ...)
InsertRow(tbl, vals) == [tbl EXCEPT !.rows = Append(@, vals)]

\* the table a load of rs installs when every statement of it succeeds
LoadedTable(rs) ==
    [exists |-> TRUE, cols |-> ColumnsOf(rs), types |-> TypesOf(rs),
     rows |-> [i \in 1..Len(rs) |-> ValuesOf(rs[i], ColumnsOf(rs))]]

----------------------------------------------------------------------------
(* Statements given to execute_safe_select, and what SQLite does with each *)
(* when it reaches conn.execute.                                           *)

SqlSelectAll == "SELECT * FROM sales"
SqlCount == " \n select count(*) AS count from sales;"
SqlNoColumn == "SELECT nope FROM sales"
SqlWithDelete == "WITH t AS (SELECT 1) DELETE FROM sales"
SqlSelectx == "selectx * FROM sales"
SqlDrop == "DROP TABLE sales;"
SqlDelete == "DELETE FROM sales;"
SqlSemicolon == "; SELECT 1;"

Statements ==
    {SqlSelectAll, SqlCount, SqlNoColumn, SqlWithDelete, SqlSelectx, SqlDrop, SqlDelete,
     SqlSemicolon}

\* str(n) for a natural number
RECURSIVE DecStr(_)
DecStr(n) == IF n < 10 THEN Ch(Digits, n + 1) ELSE DecStr(n \div 10) \o Ch(Digits, (n % 10) + 1)

\* a cursor: description is None (desc = FALSE) for a statement that returns no rows
NoCursor == [desc |-> FALSE, cols |-> <<>>, data |-> <<>>]
RowsCursor(cs, data) == [desc |-> TRUE, cols |-> cs, data |-> data]

SqliteExecuteAnyTable(s, tbl) ==
    [err |-> FALSE, tbl |-> tbl, cur |-> RowsCursor(tbl.cols, tbl.rows)]

\* conn.execute(sql) on table tbl: err when SQLite raises (syntax error, no such
\* table or column, more than one statement), else the table afterwards and the
\* cursor returned
SqliteExecute(s, tbl) ==
    LET fails == [err |-> TRUE, tbl |-> tbl, cur |-> NoCursor]
        gives(t2, c) == [err |-> FALSE, tbl |-> t2, cur |-> c]
    IN  CASE s = SqlSelectAll ->
               IF tbl.exists THEN gives(tbl, RowsCursor(tbl.cols, tbl.rows)) ELSE fails
          [] s = SqlCount ->
               IF tbl.exists
               THEN gives(tbl, RowsCursor(<<"count">>, <<<<PyInt(DecStr(Len(tbl.rows)))>>>>))
               ELSE fails
          [] s \in {SqlWithDelete, SqlDelete} ->
               IF tbl.exists THEN gives([tbl EXCEPT !.rows = <<>>], NoCursor) ELSE fails
          [] s = SqlDrop ->
               IF tbl.exists THEN gives(NoTable, NoCursor) ELSE fails
          [] OTHER -> fails

\* PRAGMA table_info("<table>"): (name, type) per column, nothing without a table
TableInfo(tbl) == [j \in 1..Len(tbl.cols) |-> <<tbl.cols[j], tbl.types[j]>>]

SampleRowsDefault == 3

\* SELECT * FROM "<table>" LIMIT n
FirstRows(tbl, n) == SubSeq(tbl.rows, 1, IF Len(tbl.rows) < n THEN Len(tbl.rows) ELSE n)

----------------------------------------------------------------------------
(* Inputs of load_rows.                                                    *)

Rec2(item, qty) == << <<"item", item>>, <<"qty", qty>> >>

\* two full records: item TEXT, qty INTEGER (the first value decides)
InSales == <<Rec2(Str("ab"), Str("7")), Rec2(Str("cd"), Str("1.5"))>>
\* blanks, a missing key and an extra key: item TEXT, qty REAL
InSparse == <<Rec2(Str(""), None), << <<"qty", Str("1.5")>>, <<"extra", Str("z")>> >> >>
\* spreadsheet integers, the second one (2^70) too large for SQLite
InOverflow == <<Rec2(Str("ef"), PyInt("3")), Rec2(Str("gh"), PyInt("1180591620717411303424"))>>
\* one record without keys
InNoColumns == << <<>> >>
\* a column name holding a double quote
InQuoted == << << <<"a\"b", Str("1")>> >> >>
\* no records
InEmpty == <<>>

LoadInputs == {InSales, InSparse, InOverflow, InNoColumns, InQuoted, InEmpty}

\* cols and types as load_rows works them out from its records, before the lock
SchemaOf ==
    [rs \in LoadInputs \ {<<>>} |-> [cols |-> ColumnsOf(rs), types |-> TypesOf(rs)]]

----------------------------------------------------------------------------
(* The engine, called from several threads.                                *)

Threads == {"t1", "t2"}
Free == "free"
MaxCalls == 3

NoRes == [op |-> "none", kind |-> "none", arg |-> "", cols |-> <<>>, data |-> <<>>]
Raised(op, kind, arg) == [op |-> op, kind |-> kind, arg |-> arg, cols |-> <<>>, data |-> <<>>]
Returned(op, arg, cs, data) == [op |-> op, kind |-> "ok", arg |-> arg, cols |-> cs, data |-> data]

AcquireLockNoWait(t) == lock' = t

\* `with self.lock:` entered: blocks until the lock is free
AcquireLock(t) == lock = Free /\ lock' = t

\* `with self.lock:` left by the end of its body
ReleaseOnReturn(t) == lock' = Free

ReleaseOnRaiseLeak(t) == lock' = lock

\* `with self.lock:` left by an exception
ReleaseOnRaise(t) == lock' = Free

InitEngine ==
    /\ table = NoTable
    /\ lock = Free
    /\ pc = [t \in Threads |-> "idle"]
    /\ rows = [t \in Threads |-> <<>>]
    /\ idx = [t \in Threads |-> 0]
    /\ sql = [t \in Threads |-> ""]
    /\ cur = [t \in Threads |-> NoCursor]
    /\ info = [t \in Threads |-> <<>>]
    /\ res = [t \in Threads |-> NoRes]
    /\ prior = [t \in Threads |-> NoTable]
    /\ gens = {}
    /\ loadFailed = FALSE
    /\ calls = 0

\* a thread starts an operation
Start(t) ==
    /\ pc[t] = "idle"
    /\ calls < MaxCalls
    /\ calls' = calls + 1

\* load_rows, up to the lock: the empty-input check and the schema inference
LoadCall(t, rs) ==
    /\ Start(t)
    /\ IF rs = <<>>
       THEN /\ res' = [res EXCEPT ![t] = Raised("load", "ValueError", "")]
            /\ UNCHANGED <<pc, rows, gens>>
       ELSE /\ rows' = [rows EXCEPT ![t] = rs]
            /\ pc' = [pc EXCEPT ![t] = "load_lock"]
            /\ res' = [res EXCEPT ![t] = NoRes]
            /\ gens' = gens \cup {LoadedTable(rs)}
    /\ UNCHANGED <<table, lock, idx, sql, cur, info, prior, loadFailed>>

LoadLock(t) ==
    /\ pc[t] = "load_lock"
    /\ AcquireLock(t)
    /\ prior' = [prior EXCEPT ![t] = table]
    /\ pc' = [pc EXCEPT ![t] = "load_drop"]
    /\ UNCHANGED <<table, rows, idx, sql, cur, info, res, gens, loadFailed, calls>>

LoadDrop(t) ==
    /\ pc[t] = "load_drop"
    /\ table' = DropTable(table)
    /\ pc' = [pc EXCEPT ![t] = "load_create"]
    /\ UNCHANGED <<lock, rows, idx, sql, cur, info, res, prior, gens, loadFailed, calls>>

\* load_rows left by an exception raised inside the lock
LoadRaise(t, kind) ==
    /\ ReleaseOnRaise(t)
    /\ res' = [res EXCEPT ![t] = Raised("load", kind, "")]
    /\ pc' = [pc EXCEPT ![t] = "idle"]
    /\ rows' = [rows EXCEPT ![t] = <<>>]
    /\ idx' = [idx EXCEPT ![t] = 0]
    /\ loadFailed' = TRUE

LoadCreate(t) ==
    /\ pc[t] = "load_create"
    /\ IF CreateRejected(SchemaOf[rows[t]].cols)
       THEN /\ LoadRaise(t, "OperationalError")
            /\ UNCHANGED table
       ELSE /\ table' = CreateTable(SchemaOf[rows[t]].cols, SchemaOf[rows[t]].types)
            /\ idx' = [idx EXCEPT ![t] = 1]
            /\ pc' = [pc EXCEPT ![t] = "load_insert"]
            /\ UNCHANGED <<lock, rows, res, loadFailed>>
    /\ UNCHANGED <<sql, cur, info, prior, gens, calls>>

LoadInsert(t) ==
    /\ pc[t] = "load_insert"
    /\ LET vals == ValuesOf(rows[t][idx[t]], ColumnsOf(rows[t]))
       IN  IF \E j \in 1..Len(vals) : ~Bindable(vals[j])
           THEN /\ LoadRaise(t, "OverflowError")
                /\ UNCHANGED table
           ELSE /\ table' = InsertRow(table, vals)
                /\ idx' = [idx EXCEPT ![t] = @ + 1]
                /\ pc' = [pc EXCEPT ![t] =
                            IF idx[t] = Len(rows[t]) THEN "load_commit" ELSE "load_insert"]
                /\ UNCHANGED <<lock, rows, res, loadFailed>>
    /\ UNCHANGED <<sql, cur, info, prior, gens, calls>>

\* conn.commit(), the end of the with block, and the return
LoadCommit(t) ==
    /\ pc[t] = "load_commit"
    /\ ReleaseOnReturn(t)
    /\ res' = [res EXCEPT ![t] = Returned("load", "", <<>>, <<>>)]
    /\ pc' = [pc EXCEPT ![t] = "idle"]
    /\ rows' = [rows EXCEPT ![t] = <<>>]
    /\ idx' = [idx EXCEPT ![t] = 0]
    /\ UNCHANGED <<table, sql, cur, info, prior, gens, loadFailed, calls>>

SafeGuardNoStrip(s) ==
    LET q == Lower(s)
    IN  StartsWith(q, "select") \/ StartsWith(q, "with")

\* the guard of execute_safe_select
SafeGuard(s) ==
    LET q == Lower(Strip(s))
    IN  StartsWith(q, "select") \/ StartsWith(q, "with")

\* the statements the guard lets through
Accepted == {s \in Statements : SafeGuard(s)}

\* execute_safe_select, up to the lock
SelectCall(t, s) ==
    /\ Start(t)
    /\ IF s \notin Accepted
       THEN /\ res' = [res EXCEPT ![t] = Raised("select", "ValueError", s)]
            /\ UNCHANGED <<pc, sql>>
       ELSE /\ sql' = [sql EXCEPT ![t] = s]
            /\ pc' = [pc EXCEPT ![t] = "select_lock"]
            /\ res' = [res EXCEPT ![t] = NoRes]
    /\ UNCHANGED <<table, lock, rows, idx, cur, info, prior, gens, loadFailed>>

SelectLock(t) ==
    /\ pc[t] = "select_lock"
    /\ AcquireLock(t)
    /\ pc' = [pc EXCEPT ![t] = "select_exec"]
    /\ UNCHANGED <<table, rows, idx, sql, cur, info, res, prior, gens, loadFailed, calls>>

\* execute_safe_select left by an exception raised inside the lock
SelectRaise(t, kind) ==
    /\ ReleaseOnRaise(t)
    /\ res' = [res EXCEPT ![t] = Raised("select", kind, sql[t])]
    /\ pc' = [pc EXCEPT ![t] = "idle"]
    /\ sql' = [sql EXCEPT ![t] = ""]
    /\ cur' = [cur EXCEPT ![t] = NoCursor]

\* cur = self.conn.execute(sql)
SelectExec(t) ==
    /\ pc[t] = "select_exec"
    /\ LET r == SqliteExecute(sql[t], table)
       IN  IF r.err
           THEN /\ SelectRaise(t, "OperationalError")
                /\ UNCHANGED table
           ELSE /\ table' = r.tbl
                /\ cur' = [cur EXCEPT ![t] = r.cur]
                /\ pc' = [pc EXCEPT ![t] = "select_fetch"]
                /\ UNCHANGED <<lock, sql, res>>
    /\ UNCHANGED <<rows, idx, info, prior, gens, loadFailed, calls>>

\* col_names from cur.description, data from cur.fetchall(), the end of the with
\* block, and the return; iterating a description of None raises TypeError
SelectFetch(t) ==
    /\ pc[t] = "select_fetch"
    /\ IF ~cur[t].desc
       THEN SelectRaise(t, "TypeError")
       ELSE /\ ReleaseOnReturn(t)
            /\ res' = [res EXCEPT ![t] = Returned("select", sql[t], cur[t].cols, cur[t].data)]
            /\ pc' = [pc EXCEPT ![t] = "idle"]
            /\ sql' = [sql EXCEPT ![t] = ""]
            /\ cur' = [cur EXCEPT ![t] = NoCursor]
    /\ UNCHANGED <<table, rows, idx, info, prior, gens, loadFailed, calls>>

\* schema_text is called (with the default sample_rows)
SchemaCall(t) ==
    /\ Start(t)
    /\ pc' = [pc EXCEPT ![t] = "schema_lock"]
    /\ res' = [res EXCEPT ![t] = NoRes]
    /\ UNCHANGED <<table, lock, rows, idx, sql, cur, info, prior, gens, loadFailed>>

SchemaLock(t) ==
    /\ pc[t] = "schema_lock"
    /\ AcquireLock(t)
    /\ pc' = [pc EXCEPT ![t] = "schema_pragma"]
    /\ UNCHANGED <<table, rows, idx, sql, cur, info, res, prior, gens, loadFailed, calls>>

\* info = PRAGMA table_info(...); cols = [(row[1], row[2]) for row in info]
SchemaPragma(t) ==
    /\ pc[t] = "schema_pragma"
    /\ info' = [info EXCEPT ![t] = TableInfo(table)]
    /\ pc' = [pc EXCEPT ![t] = "schema_sample"]
    /\ UNCHANGED <<table, lock, rows, idx, sql, cur, res, prior, gens, loadFailed, calls>>

\* sample = SELECT * ... LIMIT sample_rows, the end of the with block, and the
\* rendering of cols and sample (the text is a function of both, kept as the pair)
SchemaSample(t) ==
    /\ pc[t] = "schema_sample"
    /\ IF ~table.exists
       THEN /\ ReleaseOnRaise(t)
            /\ res' = [res EXCEPT ![t] = Raised("schema", "OperationalError", "")]
       ELSE /\ ReleaseOnReturn(t)
            /\ res' = [res EXCEPT ![t] =
                         Returned("schema", "", info[t], FirstRows(table, SampleRowsDefault))]
    /\ pc' = [pc EXCEPT ![t] = "idle"]
    /\ info' = [info EXCEPT ![t] = <<>>]
    /\ UNCHANGED <<table, rows, idx, sql, cur, prior, gens, loadFailed, calls>>

Init ==
    /\ InitEngine
    /\ sample = None
    /\ inferred = "unset"
    /\ question = ""
    /\ answer = NotRun

Next ==
    \/ \E t \in Threads : \E rs \in LoadInputs : LoadCall(t, rs) /\ UNCHANGED <<inferVars, offlineVars>>
    \/ \E t \in Threads : LoadLock(t) /\ UNCHANGED <<inferVars, offlineVars>>
    \/ \E t \in Threads : LoadDrop(t) /\ UNCHANGED <<inferVars, offlineVars>>
    \/ \E t \in Threads : LoadCreate(t) /\ UNCHANGED <<inferVars, offlineVars>>
    \/ \E t \in Threads : LoadInsert(t) /\ UNCHANGED <<inferVars, offlineVars>>
    \/ \E t \in Threads : LoadCommit(t) /\ UNCHANGED <<inferVars, offlineVars>>
    \/ \E t \in Threads : \E s \in Statements : SelectCall(t, s) /\ UNCHANGED <<inferVars, offlineVars>>
    \/ \E t \in Threads : SelectLock(t) /\ UNCHANGED <<inferVars, offlineVars>>
    \/ \E t \in Threads : SelectExec(t) /\ UNCHANGED <<inferVars, offlineVars>>
    \/ \E t \in Threads : SelectFetch(t) /\ UNCHANGED <<inferVars, offlineVars>>
    \/ \E t \in Threads : SchemaCall(t) /\ UNCHANGED <<inferVars, offlineVars>>
    \/ \E t \in Threads : SchemaLock(t) /\ UNCHANGED <<inferVars, offlineVars>>
    \/ \E t \in Threads : SchemaPragma(t) /\ UNCHANGED <<inferVars, offlineVars>>
    \/ \E t \in Threads : SchemaSample(t) /\ UNCHANGED <<inferVars, offlineVars>>

Spec == Init /\ [][Next]_vars

\* the steps a thread takes inside a locked block: none of them waits
Proceed(t) ==
    /\ \/ LoadDrop(t) \/ LoadCreate(t) \/ LoadInsert(t) \/ LoadCommit(t)
       \/ SelectExec(t) \/ SelectFetch(t)
       \/ SchemaPragma(t) \/ SchemaSample(t)
    /\ UNCHANGED <<inferVars, offlineVars>>

\* entering a `with self.lock:` block
Acquire(t) ==
    /\ LoadLock(t) \/ SelectLock(t) \/ SchemaLock(t)
    /\ UNCHANGED <<inferVars, offlineVars>>

\* a running thread keeps running, and a thread waiting for a lock that is
\* free again and again gets it; when operations are called is left open
SpecFair ==
    Spec /\ \A t \in Threads : WF_vars(Proceed(t)) /\ SF_vars(Acquire(t))

----------------------------------------------------------------------------
(* Properties of the engine.                                               *)

LockPcs == {"load_lock", "select_lock", "schema_lock"}
LoadPcs == {"load_drop", "load_create", "load_insert", "load_commit"}
SelectPcs == {"select_exec", "select_fetch"}
SchemaPcs == {"schema_pragma", "schema_sample"}

\* the thread is inside a `with self.lock:` block
InCritical(t) == pc[t] \in LoadPcs \cup SelectPcs \cup SchemaPcs

\* what a read that ended as r returns when the table it reads is g
ReadsTable(r, g) ==
    IF r.op = "schema"
    THEN r.cols = TableInfo(g) /\ r.data = FirstRows(g, SampleRowsDefault)
    ELSE LET c == SqliteExecute(r.arg, g).cur
         IN  r.cols = c.cols /\ r.data = c.data

\* C1: as long as every load_rows has completed successfully, every read that
\* returned (execute_safe_select or schema_text) returned the complete content of
\* the table of one load generation.
C1_ReadsSeeOneGeneration ==
    ~loadFailed =>
        \A t \in Threads :
            (res[t].kind = "ok" /\ res[t].op \in {"select", "schema"})
                => \E g \in gens : ReadsTable(res[t], g)

\* C2: at most one thread is inside load_rows', execute_safe_select's or
\* schema_text's locked block, and that thread holds the lock (so every other
\* caller waits at its own `with self.lock:`).
C2_MutualExclusion ==
    /\ \A t, u \in Threads : (InCritical(t) /\ InCritical(u)) => t = u
    /\ \A t \in Threads : InCritical(t) => lock = t

C2_Witness ==
    \E t, u \in Threads : pc[t] = "load_insert" /\ idx[t] = 2 /\ pc[u] \in LockPcs

\* C3: a load_rows that raises after it began replacing the table leaves either
\* the complete table it found or the complete table of its own records.
C3_FailedLoadLeavesWholeTable ==
    [][\A t \in Threads :
          (pc[t] \in {"load_create", "load_insert"} /\ pc'[t] = "idle")
              => table' \in {prior[t], LoadedTable(rows[t])}]_vars

\* C4: only load_rows changes the table: whenever the table changes, the step is
\* one of a thread inside load_rows' locked block.
C4_OnlyLoadMutates ==
    [][table' # table => \E t \in Threads : pc[t] \in LoadPcs /\ lock = t]_vars

\* the first keyword of a statement: the leading run of letters, digits and
\* underscores after the leading whitespace, in lower case
FirstKeyword(s) ==
    LET q == Lower(Strip(s))
        word == LowerCase \o Digits \o "_"
        stop == {i \in 1..Len(q) : ~InClass(Ch(q, i), word)}
    IN  IF stop = {} THEN q
        ELSE Slice(q, 1, (CHOOSE i \in stop : \A j \in stop : i <= j) - 1)

\* C5 as stated: only statements whose first keyword is SELECT or WITH get past
\* the guard of execute_safe_select.
C5_OnlyKeywordSelectOrWith ==
    \A t \in Threads :
        pc[t] \in LockPcs \cup SelectPcs /\ sql[t] # ""
            => FirstKeyword(sql[t]) \in {"select", "with"}

\* after leading whitespace the statement reads select or with, in any case
BeginsSelectOrWith(s) ==
    \E i \in 1..Len(s) :
        /\ \A j \in 1..(i - 1) : InClass(Ch(s, j), Whitespace)
        /\ \E w \in {"select", "with"} :
              /\ i + Len(w) - 1 <= Len(s)
              /\ \A k \in 1..Len(w) : LowerChar(Ch(s, i + k - 1)) = Ch(w, k)

\* C5 as amended: execute_safe_select lets through exactly the statements that
\* begin, after leading whitespace and in any case, with the characters select
\* or with; every other statement, and no statement that begins so, ends in the
\* unsafe-query ValueError in the call step itself, which leaves the lock and
\* the table untouched.
C5_GuardIsPrefixTest ==
    [][\A t \in Threads :
          /\ (pc[t] = "idle" /\ pc'[t] = "select_lock") => BeginsSelectOrWith(sql'[t])
          /\ (pc[t] = "idle" /\ pc'[t] = "idle" /\ calls' # calls
                 /\ res'[t].op = "select" /\ res'[t].kind = "ValueError")
                => /\ ~BeginsSelectOrWith(res'[t].arg)
                   /\ lock' = lock
                   /\ table' = table]_vars

C5_Witness ==
    \E t, u \in Threads :
        /\ res[t] = Raised("select", "ValueError", SqlDrop)
        /\ table = LoadedTable(InSales)
        /\ pc[u] = "select_exec" /\ sql[u] = SqlCount

\* the lock is held only by a thread that is inside one of the locked blocks
LockHeldInsideOnly ==
    \A t \in Threads : lock = t => InCritical(t)

\* C6: the lock is held only by a thread that is inside one of the locked
\* blocks, so an operation that has returned or raised no longer holds it; and
\* every thread that waits for the lock gets it.
C6_LockFreeAfterExit ==
    /\ []LockHeldInsideOnly
    /\ \A t \in Threads : (pc[t] \in LockPcs) ~> InCritical(t)

C6_Witness ==
    \E t, u \in Threads :
        /\ pc[t] = "idle"
        /\ res[t].kind \in {"OperationalError", "TypeError", "OverflowError"}
        /\ lock = u /\ InCritical(u)

\* C9: the step that completes load_rows(records) leaves exactly the table of
\* records: the inferred schema, one row per record, and that count from
\* SELECT COUNT(*), whatever the table held before.
C9_LoadInstallsItsRecords ==
    [][\A t \in Threads :
          (pc[t] = "load_commit" /\ pc'[t] = "idle")
              => /\ table' = LoadedTable(rows[t])
                 /\ Len(table'.rows) = Len(rows[t])
                 /\ SqliteExecute(SqlCount, table').cur.data
                        = <<<<PyInt(DecStr(Len(rows[t])))>>>>]_vars

C9_Witness ==
    /\ \A t \in Threads : res[t] = Returned("load", "", <<>>, <<>>)
    /\ gens = {LoadedTable(InSales), LoadedTable(InSparse)}
    /\ table = LoadedTable(InSparse)

\* the statement names the engine's table
OnTable(s) == Contains(Lower(s), TableName)

\* C11: while the engine holds no table, schema_text and execute_safe_select of
\* a query on the table do not return: the step that reaches the storage ends
\* the operation with SQLite's no-such-table error (OperationalError).
C11_NoTableReadsFail ==
    [][\A t \in Threads :
          /\ (pc[t] = "schema_sample" /\ pc'[t] # pc[t] /\ ~table.exists)
                => /\ pc'[t] = "idle"
                   /\ res'[t] = Raised("schema", "OperationalError", "")
          /\ (pc[t] = "select_exec" /\ pc'[t] # pc[t] /\ ~table.exists /\ OnTable(sql[t]))
                => /\ pc'[t] = "idle"
                   /\ res'[t] = Raised("select", "OperationalError", sql[t])]_vars

\* a fresh engine (no load_rows ever called) on which both reads have failed
C11_Witness ==
    \E t, u \in Threads :
        /\ gens = {} /\ table = NoTable
        /\ res[t] = Raised("schema", "OperationalError", "")
        /\ res[u] = Raised("select", "OperationalError", SqlSelectAll)

----------------------------------------------------------------------------
(* The type inferencer on its own: one sample, classified once.            *)

MaxSampleLen == 4
SampleAlphabet == "+-1.eEx"

\* every string over the alphabet of at most n characters
RECURSIVE StringsUpTo(_, _)
StringsUpTo(alphabet, n) ==
    IF n = 0 THEN {""}
    ELSE LET S == StringsUpTo(alphabet, n - 1)
         IN  S \cup {s \o Ch(alphabet, i) : s \in S, i \in 1..Len(alphabet)}

Samples ==
    StringsUpTo(SampleAlphabet, MaxSampleLen)
        \cup {"2024-01-31", "-12.5E+10", "1e5", "12\n", " 1", "0042", "3.14"}

InitInfer ==
    /\ InitEngine
    /\ sample \in {Str(s) : s \in Samples} \cup {None}
    /\ inferred = "unset"
    /\ question = ""
    /\ answer = NotRun

Infer ==
    /\ inferred = "unset"
    /\ inferred' = InferType(sample)
    /\ UNCHANGED <<engineVars, sample, offlineVars>>

NextInfer == Infer

SpecInfer == InitInfer /\ [][NextInfer]_vars

\* an optional sign, then digits only, at least one
IsIntegerText(s) ==
    \E n \in 0..1 :
        /\ Len(s) > n
        /\ n = 1 => InClass(Ch(s, 1), "+-")
        /\ \A i \in (n + 1)..Len(s) : InClass(Ch(s, i), Digits)

\* digits around exactly one decimal point, at least one digit
IsMantissaText(m) ==
    /\ Len(m) >= 2
    /\ Cardinality({i \in 1..Len(m) : Ch(m, i) = "."}) = 1
    /\ \A i \in 1..Len(m) : Ch(m, i) = "." \/ InClass(Ch(m, i), Digits)

\* nothing, or e or E, an optional sign and at least one digit
IsExponentText(e) ==
    \/ e = ""
    \/ /\ InClass(Ch(e, 1), "eE")
       /\ IsIntegerText(Slice(e, 2, Len(e)))

\* an optional sign, a mantissa and an optional exponent
IsRealText(s) ==
    \E n \in 0..1 : \E m \in n..Len(s) :
        /\ n = 1 => InClass(Ch(s, 1), "+-")
        /\ IsMantissaText(Slice(s, n + 1, m))
        /\ IsExponentText(Slice(s, m + 1, Len(s)))

\* C10: for every sample that is not None the inferencer returns INTEGER when
\* the text is an optional sign and digits, REAL when it is an optional sign,
\* digits with a decimal point and an optional exponent, and TEXT otherwise
\* (ISO dates included).
C10_InferTypeClassifies ==
    (inferred # "unset" /\ sample # None) =>
        inferred = IF IsIntegerText(sample.s) THEN "INTEGER"
                   ELSE IF IsRealText(sample.s) THEN "REAL"
                   ELSE "TEXT"

C10_Witness == sample = Str("1.e1") /\ inferred = "REAL"

----------------------------------------------------------------------------
(* The offline translator on its own: one question, translated once.       *)

MaxWords == 3
MaxTopN == 12

Words ==
    <<"Count", "revenue", "by item", "daily", "top", "3", "items", "product", "customer",
      "is", "named", "bob", "=">>

\* the questions of exactly n words, single spaces between them
RECURSIVE Phrases(_)
Phrases(n) ==
    IF n = 1 THEN {Words[i] : i \in 1..Len(Words)}
    ELSE {p \o " " \o Words[i] : p \in Phrases(n - 1), i \in 1..Len(Words)}

\* s repeated n times
RECURSIVE Repeat(_, _)
Repeat(s, n) ==
    IF n = 0 THEN ""
    ELSE LET h == Repeat(s, n \div 2)
         IN  IF n % 2 = 0 THEN h \o h ELSE h \o h \o s

TopQuestion(n) == "top " \o DecStr(n) \o " items by revenue"

\* a top-N question whose number has one digit more than int() accepts
HugeTopQuestion == "top " \o Repeat("9", IntMaxStrDigits + 1) \o " items"

OtherQuestions ==
    {"how many rows are there", "revenue by date", "hello", "", "total sales per day",
     "sum per item", "TOP\t007 Products", "stop 3 items", "top items 3",
     "item is x\" OR \"1\"=\"1", "count where item is  Foo Bar ", "count item is \"x\"",
     "count items is y", "item=x", "count item=x", "customer named\n \tacme-1; drop",
     "customer isabel", "item named", "customer is 'bob'", HugeTopQuestion}

MaxValueLen == 3
ValueAlphabet == "B\"'; -"

\* the beginnings of questions that reach one of the three filter patterns
FilterForms == {"item is", "item=", "count item is", "customer named", "customer ="}

\* a filter question: a beginning, a space or nothing, and any text over the
\* alphabet (a letter, both quotes, a semicolon, a space, a hyphen)
FilterQuestions ==
    {f \o g \o v : f \in FilterForms, g \in {"", " "},
                    v \in StringsUpTo(ValueAlphabet, MaxValueLen)}

Questions ==
    UNION {Phrases(n) : n \in 1..MaxWords}
        \cup {TopQuestion(n) : n \in 1..MaxTopN}
        \cup OtherQuestions
        \cup FilterQuestions

InitOffline ==
    /\ InitEngine
    /\ sample = None
    /\ inferred = "unset"
    /\ question \in Questions
    /\ answer = NotRun

Translate ==
    /\ answer = NotRun
    /\ answer' = OfflineSql(question, TableName)
    /\ UNCHANGED <<engineVars, inferVars, question>>

NextOffline == Translate

SpecOffline == InitOffline /\ [][NextOffline]_vars

TopTemplate == "SELECT item, SUM(quantity*price) AS revenue FROM sales GROUP BY item ORDER BY revenue DESC LIMIT "

\* C7: for every positive N, "top N items by revenue" is translated into the
\* revenue-by-item query limited to N.
C7_TopNItemsByRevenue ==
    \A n \in 1..MaxTopN :
        (question = TopQuestion(n) /\ answer # NotRun)
            => answer = Ret(TopTemplate \o DecStr(n) \o ";")

EndsWith(s, p) == Len(s) >= Len(p) /\ Slice(s, Len(s) - Len(p) + 1, Len(s)) = p

\* the rules' conditions on the lower-cased question, as section 4.4 words them
AsksCount(q) == Contains(q, "how many") \/ Contains(q, "count")

AsksRevenue(q) == Contains(q, "revenue") \/ Contains(q, "total sales") \/ Contains(q, "sum")

\* "top", whitespace, a digit; and item or product somewhere
AsksTop(q) ==
    /\ \E i \in 1..Len(q) : \E j \in (i + 4)..Len(q) :
          /\ Slice(q, i, i + 2) = "top"
          /\ \A k \in (i + 3)..(j - 1) : InClass(Ch(q, k), Whitespace)
          /\ InClass(Ch(q, j), Digits)
    /\ (Contains(q, "item") \/ Contains(q, "product"))

\* the field, whitespace, one of = is named, optional whitespace, a value character
AsksFilter(q, field) ==
    \E i \in 1..Len(q) : \E w \in {"=", "is", "named"} :
        \E a \in (i + Len(field) + 1)..Len(q) : \E b \in (a + Len(w))..Len(q) :
            /\ Slice(q, i, i + Len(field) - 1) = field
            /\ \A k \in (i + Len(field))..(a - 1) : InClass(Ch(q, k), Whitespace)
            /\ Slice(q, a, a + Len(w) - 1) = w
            /\ \A k \in (a + Len(w))..(b - 1) : InClass(Ch(q, k), Whitespace)
            /\ InClass(Ch(q, b), ValueChars)

\* the statement is the template of the rule: 1 count, 2 revenue sum, 3 top-N,
\* 4 customer filter, 5 item filter, 6 default
IsTemplateOf(rule, s) ==
    CASE rule = 1 ->
           \/ s = "SELECT COUNT(*) AS count FROM sales;"
           \/ /\ StartsWith(s, "SELECT COUNT(*) AS count FROM sales WHERE item = \"")
              /\ EndsWith(s, "\";")
      [] rule = 2 ->
           s \in {"SELECT item, SUM(quantity*price) AS revenue FROM sales GROUP BY item ORDER BY revenue DESC LIMIT 10;",
                  "SELECT date, SUM(quantity*price) AS revenue FROM sales GROUP BY date ORDER BY date;",
                  "SELECT SUM(quantity*price) AS revenue FROM sales;"}
      [] rule = 3 ->
           /\ StartsWith(s, TopTemplate)
           /\ Len(s) > Len(TopTemplate) + 1
           /\ \A k \in (Len(TopTemplate) + 1)..(Len(s) - 1) : InClass(Ch(s, k), Digits)
           /\ EndsWith(s, ";")
      [] rule = 4 ->
           /\ StartsWith(s, "SELECT * FROM sales WHERE customer = \"")
           /\ EndsWith(s, "\" LIMIT 50;")
      [] rule = 5 ->
           /\ StartsWith(s, "SELECT * FROM sales WHERE item = \"")
           /\ EndsWith(s, "\" LIMIT 50;")
      [] OTHER -> s = "SELECT * FROM sales LIMIT 20;"

\* the lowest-numbered rule whose condition holds
RuleFor(q) ==
    IF AsksCount(q) THEN 1
    ELSE IF AsksRevenue(q) THEN 2
    ELSE IF AsksTop(q) THEN 3
    ELSE IF AsksFilter(q, "customer") THEN 4
    ELSE IF AsksFilter(q, "item") THEN 5
    ELSE 6

\* the translation is the template of the first rule that matches, and one
\* statement: a single semicolon, at its end
C8_Dispatch ==
    (answer # NotRun /\ answer.kind = "return") =>
        /\ IsTemplateOf(RuleFor(Lower(question)), answer.sql)
        /\ {i \in 1..Len(answer.sql) : Ch(answer.sql, i) = ";"} = {Len(answer.sql)}

\* C8: offline_sql never raises, returns the template of the first rule (count,
\* revenue sum, top-N, customer filter, item filter, default) whose condition
\* holds, and the result is a single statement ending in a semicolon.
C8_TotalFirstMatch ==
    /\ answer # NotRun => answer.kind = "return"
    /\ C8_Dispatch

\* the positions of character c in s
PositionsOf(s, c) == {i \in 1..Len(s) : Ch(s, i) = c}

InjectionQuestion == "item is x\" OR \"1\"=\"1"

\* C12: a returned statement with a WHERE clause has exactly two double quotes,
\* between them only lower-case letters, digits, underscore, space and hyphen,
\* no single quote, and exactly one semicolon, its last character; the question
\* item is x" OR "1"="1 yields the literal "x".
C12_FilterValueIsSafe ==
    /\ (answer.kind = "return" /\ Contains(answer.sql, " WHERE "))
          => LET st == answer.sql
                 dq == PositionsOf(st, "\"")
             IN  /\ Cardinality(dq) = 2
                 /\ \A i \in (Min(dq) + 1)..(Max(dq) - 1) :
                       InClass(Ch(st, i), LowerCase \o Digits \o "_ -")
                 /\ PositionsOf(st, "'") = {}
                 /\ PositionsOf(st, ";") = {Len(st)}
    /\ (question = InjectionQuestion /\ answer # NotRun)
          => answer = Ret("SELECT * FROM sales WHERE item = \"x\" LIMIT 50;")

C12_Witness ==
    /\ question = "customer named B-\""
    /\ answer = Ret("SELECT * FROM sales WHERE customer = \"b-\" LIMIT 50;")

====
